---- MODULE Spec2Model ----
(***************************************************************************)
(* Model of iai-callgrind-runner/src/runner/flamegraph.rs: the folded      *)
(* stack data model (StackEntry, Stack, Stacks), the destination handling  *)
(* of FlamegraphOutput and the render loop of Flamegraph::create.          *)
(*                                                                         *)
(* Text is modelled by TLA+ strings, Option<T> by a sequence of at most    *)
(* one element, Result<T> by a record [tag, val] with tag "Ok" or "Err".   *)
(* A file is absent (None) or holds a sequence of SVG documents, one per   *)
(* call of the rendering engine that wrote to it.                          *)
(***************************************************************************)
EXTENDS Integers, Sequences, FiniteSets, TLC

VARIABLES
    cur,      \* a Stack owned by the caller (Option<Stack>)
    calls,    \* history: the Stack::new / Stack::add calls that built cur
    stacks,   \* the Stacks collection of the current run (Stacks.0)
    svg,      \* content of the '<base>.svg' file (Option<file>)
    old,      \* content of the '<base>.svg.old' file (Option<file>)
    fgout,    \* the FlamegraphOutput returned by init (Option<path>)
    uses,     \* history: create calls that opened fgout since it was made (0, 1, many)
    engine,   \* the rendering engine's invocations during the last create call
    op,       \* name of the last operation
    args,     \* its arguments
    ret       \* its return value

vars == <<cur, calls, stacks, svg, old, fgout, uses, engine, op, args, ret>>

----------------------------------------------------------------------------
(* Bounds of the model. *)

\* longest entries sequence a Stack is extended to
MaxEntries == 2
\* most Stacks a collection is grown to
MaxStacks == 2

----------------------------------------------------------------------------
(* Option and Result. *)

None == <<>>
Some(x) == <<x>>
Ok(v) == [tag |-> "Ok", val |-> v]
Err(msg) == [tag |-> "Err", val |-> msg]

----------------------------------------------------------------------------
(* The cost snapshot (super::callgrind::parser::Costs): a map from event   *)
(* type to a cost in which an event type may have no entry.  An EventType  *)
(* is modelled by its display name.                                        *)

EventTypes == {"Ir", "Dr"}

Costs_default == [Ir |-> None, Dr |-> None]

\* Costs::cost_by_type: the cost of the event type, None when it has no entry
cost_by_type(costs, event_type) == costs[event_type]

\* u64 Display: the decimal digits of n, most significant first
Digit(d) ==
    CASE d = 0 -> "0" [] d = 1 -> "1" [] d = 2 -> "2" [] d = 3 -> "3"
      [] d = 4 -> "4" [] d = 5 -> "5" [] d = 6 -> "6" [] d = 7 -> "7"
      [] d = 8 -> "8" [] d = 9 -> "9"

RECURSIVE Dec(_)
Dec(n) == IF n < 10 THEN Digit(n) ELSE Dec(n \div 10) \o Digit(n % 10)

----------------------------------------------------------------------------
(* StackEntry and Stack. *)

\* impl Display for StackEntry
StackEntry_fmt(self) ==
    IF self.is_inline THEN "[" \o self.value \o "]" ELSE self.value

\* #[derive(Default)] on Stack: no entries, Costs::default()
Stack_default == [entries |-> <<>>, costs |-> Costs_default]

Stack_new(item, costs, is_inline) ==
    [entries |-> <<[is_inline |-> is_inline, value |-> item]>>, costs |-> costs]

\* a slip: the supplied snapshot is accumulated into the one held
Stack_add_summed(self, item, costs, is_inline) ==
    [entries |-> Append(self.entries, [is_inline |-> is_inline, value |-> item]),
     costs |-> [e \in EventTypes |->
                  IF self.costs[e] = None THEN costs[e]
                  ELSE IF costs[e] = None THEN self.costs[e]
                  ELSE Some(self.costs[e][1] + costs[e][1])]]

Stack_add(self, item, costs, is_inline) ==
    [entries |-> Append(self.entries, [is_inline |-> is_inline, value |-> item]),
     costs |-> costs]

\* a slip: the inline flag is not compared
Stack_contains_label_only(self, item, is_inline) ==
    \E i \in 1..Len(self.entries) :
        self.entries[Len(self.entries) + 1 - i].value = item

\* entries.iter().rev().any(..)
Stack_contains(self, item, is_inline) ==
    \E i \in 1..Len(self.entries) :
        LET e == self.entries[Len(self.entries) + 1 - i]
        IN  e.is_inline = is_inline /\ e.value = item

MetricNotFound(event_type) ==
    "Error creating flamegraph: Event type '" \o event_type \o "' not found"

\* for element in suffix { write!(&mut result, ";{element}") }
RECURSIVE WriteSuffix(_, _)
WriteSuffix(result, suffix) ==
    IF suffix = <<>> THEN result
    ELSE WriteSuffix(result \o ";" \o StackEntry_fmt(Head(suffix)), Tail(suffix))

Stack_to_string(self, event_type) ==
    IF self.entries = <<>> THEN Ok("")
    ELSE LET joined == WriteSuffix(StackEntry_fmt(Head(self.entries)),
                                   Tail(self.entries))
             cost == cost_by_type(self.costs, event_type)
         IN  IF cost = None THEN Err(MetricNotFound(event_type))
             ELSE Ok(joined \o " " \o Dec(cost[1]))

----------------------------------------------------------------------------
(* Stacks. *)

Stacks_default == <<>>

Stacks_is_empty(self) == self = <<>>

\* a slip: a Stack whose entries are already in the collection is merged away
Stacks_push_merging(self, value) ==
    IF \E i \in 1..Len(self) : self[i].entries = value.entries
    THEN self ELSE Append(self, value)

Stacks_push(self, value) == Append(self, value)

\* a slip: base is extended in place instead of a clone of it
Stacks_add_in_place(self, item, costs, is_inline, base) ==
    IF base # None
    THEN LET stack == Stack_add(base[1], item, costs, is_inline)
         IN  [self |-> Stacks_push(self, stack), base |-> Some(stack)]
    ELSE [self |-> Stacks_push(self, Stack_new(item, costs, is_inline)),
          base |-> base]

\* The result holds the collection and base as they are after the call.
Stacks_add(self, item, costs, is_inline, base) ==
    LET stack == IF base # None
                 THEN Stack_add(base[1], item, costs, is_inline)
                 ELSE Stack_new(item, costs, is_inline)
    IN  [self |-> Stacks_push(self, stack), base |-> base]

Stacks_last(self) == IF self = <<>> THEN None ELSE Some(self[Len(self)])

----------------------------------------------------------------------------
(* The filesystem and FlamegraphOutput.  fs is [svg, old], the content of  *)
(* the two files; a path is [stem, ext].                                   *)

\* the CallgrindOutput the destination is derived from
Output == [stem |-> "callgrind.bench", ext |-> "out"]

\* PathBuf::with_extension
with_extension(path, ext) == [path EXCEPT !.ext = ext]

display(path) == path.stem \o "." \o path.ext

CopyFailed(path, old_svg, error) ==
    "Error copying flamegraph file '" \o display(path) \o "' -> '"
        \o display(old_svg) \o "' : " \o error

CreateFailed(error) == "Creating flamegraph file failed: " \o error

\* what std::fs::copy can do: succeed, fail before it opens the target, or
\* fail after it created or truncated the target
CopyOutcomes == {"ok", "fail_before", "fail_partial"}

\* a slip: the existing file is renamed to the sibling instead of copied
FlamegraphOutput_init_moving(output, fs, copy) ==
    LET path == with_extension(output, "svg")
    IN  IF fs.svg # None
        THEN [ret |-> Ok(path), svg |-> None, old |-> fs.svg, copied |-> TRUE]
        ELSE [ret |-> Ok(path), svg |-> fs.svg, old |-> fs.old, copied |-> FALSE]

\* a slip: the backup of the existing file is left out
FlamegraphOutput_init_no_backup(output, fs, copy) ==
    [ret |-> Ok(with_extension(output, "svg")), svg |-> fs.svg, old |-> fs.old,
     copied |-> FALSE]

\* The result holds init's return value, the two files after the call and
\* whether std::fs::copy was called.
FlamegraphOutput_init(output, fs, copy) ==
    LET path == with_extension(output, "svg")
    IN  IF fs.svg # None
        THEN LET old_svg == with_extension(path, "svg.old")
             IN  CASE copy = "ok" ->
                        [ret |-> Ok(path), svg |-> fs.svg, old |-> fs.svg,
                         copied |-> TRUE]
                   [] copy = "fail_before" ->
                        [ret |-> Err(CopyFailed(path, old_svg, "io")),
                         svg |-> fs.svg, old |-> fs.old, copied |-> TRUE]
                   [] copy = "fail_partial" ->
                        [ret |-> Err(CopyFailed(path, old_svg, "io")),
                         svg |-> fs.svg, old |-> Some(<<>>), copied |-> TRUE]
        ELSE [ret |-> Ok(path), svg |-> fs.svg, old |-> fs.old, copied |-> FALSE]

\* File::create: the file exists and is empty afterwards, or the call fails
\* and the file is as it was
FlamegraphOutput_create(self, fs, create_ok) ==
    IF create_ok THEN [ret |-> Ok(self), svg |-> Some(<<>>)]
    ELSE [ret |-> Err(CreateFailed("io")), svg |-> fs.svg]

----------------------------------------------------------------------------
(* Flamegraph.  self is [types, title, stacks]; env is what the            *)
(* environment decides during the call: whether File::create succeeds and  *)
(* which call of the rendering engine fails (0: none).                     *)

\* for stack in self.stacks.iter() { stacks.push(stack.to_string(event_type)?) }
RECURSIVE CollectLines(_, _, _)
CollectLines(rest, event_type, lines) ==
    IF rest = <<>> THEN Ok(lines)
    ELSE LET line == Stack_to_string(Head(rest), event_type)
         IN  IF line.tag = "Err" THEN line
             ELSE CollectLines(Tail(rest), event_type, Append(lines, line.val))

\* inferno::flamegraph::from_lines writing at the position of the open file:
\* a complete document, or a failure that leaves an incomplete one
from_lines(options, lines, file, fails) ==
    Append(file, [title |-> options.title, count_name |-> options.count_name,
                  lines |-> lines, complete |-> ~fails])

\* for event_type in &self.types { .. }, from the k-th event type on
RECURSIVE RenderLoop(_, _, _, _, _)
RenderLoop(self, k, file, invoked, env) ==
    IF k > Len(self.types)
    THEN [ret |-> Ok("()"), file |-> file, engine |-> invoked]
    ELSE LET event_type == self.types[k]
             options == [title |-> self.title, count_name |-> event_type]
             lines == CollectLines(self.stacks, event_type, <<>>)
         IN  IF lines.tag = "Err"
             THEN [ret |-> lines, file |-> file, engine |-> invoked]
             ELSE LET call == [options |-> options, lines |-> lines.val]
                      fails == env.engine_fail_at = k
                      written == from_lines(options, lines.val, file, fails)
                  IN  IF fails
                      THEN [ret |-> Err(CreateFailed("render")), file |-> written,
                            engine |-> Append(invoked, call)]
                      ELSE RenderLoop(self, k + 1, written,
                                      Append(invoked, call), env)

\* a slip: the check for an empty collection is left out
Flamegraph_create_unguarded(self, dest, fs, env) ==
    LET output_file == FlamegraphOutput_create(dest, fs, env.create_ok)
    IN  IF output_file.ret.tag = "Err"
        THEN [ret |-> output_file.ret, svg |-> output_file.svg, engine |-> <<>>,
              opened |-> FALSE]
        ELSE LET r == RenderLoop(self, 1, output_file.svg[1], <<>>, env)
             IN  [ret |-> r.ret, svg |-> Some(r.file), engine |-> r.engine,
                  opened |-> TRUE]

\* The result holds create's return value, the destination file after the
\* call, the engine's invocations and whether the destination was opened.
Flamegraph_create(self, dest, fs, env) ==
    IF Stacks_is_empty(self.stacks)
    THEN [ret |-> Ok("()"), svg |-> fs.svg, engine |-> <<>>, opened |-> FALSE]
    ELSE LET output_file == FlamegraphOutput_create(dest, fs, env.create_ok)
         IN  IF output_file.ret.tag = "Err"
             THEN [ret |-> output_file.ret, svg |-> output_file.svg,
                   engine |-> <<>>, opened |-> FALSE]
             ELSE LET r == RenderLoop(self, 1, output_file.svg[1], <<>>, env)
                  IN  [ret |-> r.ret, svg |-> Some(r.file), engine |-> r.engine,
                       opened |-> TRUE]

----------------------------------------------------------------------------
(* Inputs. *)

Labels == {"a", "b"}

Ir10 == [Ir |-> Some(10), Dr |-> None]
Ir5Dr42 == [Ir |-> Some(5), Dr |-> Some(42)]

\* the cost snapshots handed to Stack::new and Stack::add
CostsSet == {Costs_default, Ir10, Ir5Dr42}

\* the call-tree nodes the tree-walking driver visits
Nodes ==
    {[item |-> "a", is_inline |-> FALSE, costs |-> Ir10],
     [item |-> "b", is_inline |-> FALSE, costs |-> Ir5Dr42]}

Title == "callgrind.bench"

\* the lists of event types a Flamegraph is configured with: every list
\* without repetition
TypeSeqs ==
    {t \in UNION {[1..n -> EventTypes] : n \in 0..Cardinality(EventTypes)} :
        \A i, j \in 1..Len(t) : t[i] = t[j] => i = j}

\* collections as the driver leaves them behind
WalkEmpty == Stacks_default

\* 'a' with Ir=10 and no Dr, then 'a;b' with Ir=5 and Dr=42
WalkAB ==
    LET s1 == Stacks_add(Stacks_default, "a", Ir10, FALSE, None).self
    IN  Stacks_add(s1, "b", Ir5Dr42, FALSE, Stacks_last(s1)).self

\* 'main;[inline_helper];work' with Ir=5 and Dr=42
WalkMain ==
    LET s1 == Stacks_add(Stacks_default, "main", Ir10, FALSE, None).self
        s2 == Stacks_add(s1, "inline_helper", Ir10, TRUE, Stacks_last(s1)).self
    IN  <<Stacks_add(s2, "work", Ir5Dr42, FALSE, Stacks_last(s2)).self[3]>>

SampleStacks == {WalkEmpty, WalkAB, WalkMain}

\* a rendering left behind by an earlier run
PrevDoc(count_name) ==
    [title |-> Title, count_name |-> count_name, lines |-> <<"main 1">>,
     complete |-> TRUE]

NoArgs == [none |-> TRUE]
NoRet == [tag |-> "None", val |-> ""]

----------------------------------------------------------------------------
(* Initial states. *)

InitCommon ==
    /\ cur = None
    /\ calls = <<>>
    /\ stacks = Stacks_default
    /\ uses = 0
    /\ engine = <<>>
    /\ op = "none"
    /\ args = NoArgs
    /\ ret = NoRet

\* no FlamegraphOutput yet; the destination may hold an earlier rendering
Init ==
    /\ InitCommon
    /\ svg \in {None, Some(<<PrevDoc("Ir")>>)}
    /\ old \in {None, Some(<<PrevDoc("Dr")>>)}
    /\ fgout = None

InitStack ==
    /\ InitCommon
    /\ svg = None
    /\ old = None
    /\ fgout = None

\* a FlamegraphOutput for a destination that does not exist yet
InitStacks ==
    /\ InitCommon
    /\ svg = None
    /\ old = None
    /\ fgout = Some(with_extension(Output, "svg"))

----------------------------------------------------------------------------
(* Operations on the caller's Stack. *)

FsVars == <<svg, old, fgout, uses, engine>>

StackDefault ==
    /\ cur' = Some(Stack_default)
    /\ calls' = <<>>
    /\ op' = "Stack::default"
    /\ args' = NoArgs
    /\ ret' = NoRet
    /\ UNCHANGED <<stacks, FsVars>>

StackNew ==
    \E item \in Labels, costs \in CostsSet, is_inline \in BOOLEAN :
        /\ cur' = Some(Stack_new(item, costs, is_inline))
        /\ calls' = <<[fn |-> "new", item |-> item, costs |-> costs,
                      is_inline |-> is_inline]>>
        /\ op' = "Stack::new"
        /\ args' = [item |-> item, costs |-> costs, is_inline |-> is_inline]
        /\ ret' = NoRet
        /\ UNCHANGED <<stacks, FsVars>>

StackAdd ==
    \E item \in Labels, costs \in CostsSet, is_inline \in BOOLEAN :
        /\ cur # None
        /\ Len(cur[1].entries) < MaxEntries
        /\ cur' = Some(Stack_add(cur[1], item, costs, is_inline))
        /\ calls' = Append(calls, [fn |-> "add", item |-> item, costs |-> costs,
                                   is_inline |-> is_inline])
        /\ op' = "Stack::add"
        /\ args' = [item |-> item, costs |-> costs, is_inline |-> is_inline]
        /\ ret' = NoRet
        /\ UNCHANGED <<stacks, FsVars>>

StackContains ==
    \E item \in Labels, is_inline \in BOOLEAN :
        /\ cur # None
        /\ op' = "Stack::contains"
        /\ args' = [item |-> item, is_inline |-> is_inline]
        /\ ret' = [tag |-> "Bool", val |-> Stack_contains(cur[1], item, is_inline)]
        /\ UNCHANGED <<cur, calls, stacks, FsVars>>

StackToString ==
    \E event_type \in EventTypes :
        /\ cur # None
        /\ op' = "Stack::to_string"
        /\ args' = [event_type |-> event_type]
        /\ ret' = Stack_to_string(cur[1], event_type)
        /\ UNCHANGED <<cur, calls, stacks, FsVars>>

----------------------------------------------------------------------------
(* Operations on the collection.  A run's collection is built during the   *)
(* walk and rendered once.                                                 *)

Collecting == op # "Flamegraph::create"

StacksPush ==
    \E value \in {Stack_default}
                 \cup {Stack_new(n.item, n.costs, n.is_inline) : n \in Nodes}
                 \cup {stacks[i] : i \in 1..Len(stacks)} :
        /\ Collecting
        /\ Len(stacks) < MaxStacks
        /\ stacks' = Stacks_push(stacks, value)
        /\ op' = "Stacks::push"
        /\ args' = [value |-> value]
        /\ ret' = NoRet
        /\ UNCHANGED <<cur, calls, FsVars>>

\* base is None or a clone of the from-th Stack of the collection
StacksAdd ==
    \E n \in Nodes, from \in 0..Len(stacks) :
        LET base == IF from = 0 THEN None ELSE Some(stacks[from])
            r == Stacks_add(stacks, n.item, n.costs, n.is_inline, base)
        IN  /\ Collecting
            /\ Len(stacks) < MaxStacks
            /\ from > 0 => Len(stacks[from].entries) < MaxEntries
            /\ stacks' = r.self
            /\ op' = "Stacks::add"
            /\ args' = [item |-> n.item, costs |-> n.costs,
                        is_inline |-> n.is_inline, from |-> from,
                        base |-> r.base]
            /\ ret' = NoRet
            /\ UNCHANGED <<cur, calls, FsVars>>

\* stacks.0[index].add(..): a Stack of the collection is extended in place
StacksExtend ==
    \E n \in Nodes, index \in 1..Len(stacks) :
        /\ Collecting
        /\ Len(stacks[index].entries) < MaxEntries
        /\ stacks' = [stacks EXCEPT
                        ![index] = Stack_add(@, n.item, n.costs, n.is_inline)]
        /\ op' = "Stacks.0[index].add"
        /\ args' = [item |-> n.item, costs |-> n.costs,
                    is_inline |-> n.is_inline, index |-> index]
        /\ ret' = NoRet
        /\ UNCHANGED <<cur, calls, FsVars>>

StacksLast ==
    /\ Collecting
    /\ op' = "Stacks::last"
    /\ args' = NoArgs
    /\ ret' = [tag |-> "Option", val |-> Stacks_last(stacks)]
    /\ UNCHANGED <<cur, calls, stacks, FsVars>>

----------------------------------------------------------------------------
(* FlamegraphOutput::init and Flamegraph::create. *)

OutputInit ==
    \E copy \in CopyOutcomes :
        LET r == FlamegraphOutput_init(Output, [svg |-> svg, old |-> old], copy)
        IN  /\ svg' = r.svg
            /\ old' = r.old
            /\ fgout' = IF r.ret.tag = "Ok" THEN Some(r.ret.val) ELSE fgout
            /\ uses' = IF r.ret.tag = "Ok" THEN 0 ELSE uses
            /\ op' = "FlamegraphOutput::init"
            /\ args' = [output |-> Output, copied |-> r.copied]
            /\ ret' = r.ret
            /\ UNCHANGED <<cur, calls, stacks, engine>>

\* a Flamegraph is built over the collection built and created
Create(collection) ==
    \E types \in TypeSeqs, create_ok \in BOOLEAN :
      \E engine_fail_at \in 0..(IF create_ok THEN Len(types) ELSE 0) :
        LET self == [types |-> types, title |-> Title, stacks |-> collection]
            env == [create_ok |-> create_ok, engine_fail_at |-> engine_fail_at]
            r == Flamegraph_create(self, fgout[1], [svg |-> svg, old |-> old], env)
        IN  /\ fgout # None
            /\ stacks' = collection
            /\ svg' = r.svg
            /\ engine' = r.engine
            /\ uses' = IF r.opened /\ uses < 2 THEN uses + 1 ELSE uses
            /\ op' = "Flamegraph::create"
            /\ args' = [types |-> types]
            /\ ret' = r.ret
            /\ UNCHANGED <<cur, calls, old, fgout>>

FlamegraphCreate == Collecting /\ Create(stacks)

FlamegraphCreateRun == \E collection \in SampleStacks : Create(collection)

----------------------------------------------------------------------------
(* Specifications. *)

NextStack ==
    \/ StackDefault
    \/ StackNew
    \/ StackAdd
    \/ StackContains
    \/ StackToString

SpecStack == InitStack /\ [][NextStack]_vars

NextStacks ==
    \/ StacksPush
    \/ StacksAdd
    \/ StacksExtend
    \/ StacksLast
    \/ FlamegraphCreate

SpecStacks == InitStacks /\ [][NextStacks]_vars

NextFlamegraph ==
    \/ OutputInit
    \/ FlamegraphCreateRun

SpecFlamegraph == Init /\ [][NextFlamegraph]_vars

----------------------------------------------------------------------------
(* Claims about one Stack, checked under SpecStack.                        *)

\* the calls that built cur started with Stack::new
BuiltByNew == calls # <<>> /\ calls[1].fn = "new"

\* an entry as the folded format shows it
Shown(call) == IF call.is_inline THEN "[" \o call.item \o "]" ELSE call.item

\* the entries of the calls joined by ';', in call order
RECURSIVE JoinedCalls(_)
JoinedCalls(cs) ==
    IF Len(cs) = 1 THEN Shown(cs[1])
    ELSE JoinedCalls(SubSeq(cs, 1, Len(cs) - 1)) \o ";" \o Shown(cs[Len(cs)])

\* C1: for a Stack built by Stack::new and then Stack::add calls, and an
\* event type present in the snapshot of the most recent call, to_string
\* returns the entries of the calls joined by ';' in call order, each in
\* brackets iff its inline flag is set, then one space and the cost of the
\* event type in the snapshot of the most recent call.
C1_ToStringLine ==
    (/\ op = "Stack::to_string"
     /\ BuiltByNew
     /\ calls[Len(calls)].costs[args.event_type] # None)
    => ret = Ok(JoinedCalls(calls) \o " "
                   \o ToString(calls[Len(calls)].costs[args.event_type][1]))

\* new("a", Ir=10) then add("b", Ir=5 Dr=42, inline) renders for Ir as
\* 'a;[b] 5': the last snapshot, not the sum 15
C1_Witness ==
    /\ op = "Stack::to_string"
    /\ args.event_type = "Ir"
    /\ Len(calls) = 2
    /\ calls[1].fn = "new" /\ calls[1].costs = Ir10
    /\ calls[2].costs = Ir5Dr42 /\ calls[2].is_inline
    /\ ret = Ok("a;[b] 5")

\* C8: to_string fails with the metric-not-found error for every Stack whose
\* snapshot has no entry for the event type, a Stack without entries
\* included, and returns a line only when the snapshot has an entry.
C8_FailsIffNoEntry ==
    op = "Stack::to_string"
    => /\ ret.tag = "Err" <=> cost_by_type(cur[1].costs, args.event_type) = None
       /\ ret.tag = "Err" => ret.val = MetricNotFound(args.event_type)

\* C9: for a Stack built by Stack::new and then Stack::add calls,
\* contains(label, inline) is true iff some call supplied that label together
\* with that inline flag.
C9_ContainsIffSupplied ==
    (op = "Stack::contains" /\ BuiltByNew)
    => ret.val = (\E i \in 1..Len(calls) :
                     /\ calls[i].item = args.item
                     /\ calls[i].is_inline = args.is_inline)

\* the label was supplied, first of two, with the other inline flag only:
\* contains returns false
C9_Witness ==
    /\ op = "Stack::contains"
    /\ BuiltByNew
    /\ Len(calls) = 2
    /\ calls[1].item = args.item /\ calls[1].is_inline # args.is_inline
    /\ calls[2].item # args.item
    /\ ret.val = FALSE

----------------------------------------------------------------------------
(* Claims about the collection, checked under SpecStacks.                  *)

\* every Stack the collection held is still there, in place and unchanged
KeepsAll == \A i \in 1..Len(stacks) : stacks'[i] = stacks[i]

\* C2: Stacks.add appends exactly one Stack: base's entries followed by the
\* new (label, inline) entry, with the supplied snapshot, which is
\* Stack::new(label, costs, inline) when base is absent; base and every
\* Stack already in the collection are as before the call, and stay so when
\* a Stack of the collection is extended afterwards.
C2_AddAppendsClone ==
    [][/\ op' = "Stacks::add" =>
            LET a == args'
                added == stacks'[Len(stacks')]
                prefix == IF a.from = 0 THEN <<>> ELSE stacks[a.from].entries
            IN  /\ Len(stacks') = Len(stacks) + 1
                /\ KeepsAll
                /\ added.entries =
                     prefix \o <<[is_inline |-> a.is_inline, value |-> a.item]>>
                /\ added.costs = a.costs
                /\ a.from = 0 =>
                     /\ added = Stack_new(a.item, a.costs, a.is_inline)
                     /\ a.base = None
                /\ a.from # 0 => a.base = Some(stacks[a.from])
       /\ op' = "Stacks.0[index].add" =>
            /\ Len(stacks') = Len(stacks)
            /\ \A i \in 1..Len(stacks) :
                 i # args'.index => stacks'[i] = stacks[i]
      ]_vars

\* 'a;b' was added with the Stack 'a' as base, which is as it was
C2_Witness ==
    /\ op = "Stacks::add"
    /\ args.from = 1
    /\ args.base = Some(Stack_new("a", Ir10, FALSE))
    /\ Len(stacks) = 2
    /\ stacks[1] = Stack_new("a", Ir10, FALSE)
    /\ stacks[2] = Stack_add(stacks[1], "b", Ir5Dr42, FALSE)

\* C10: the collection holds one Stack per push or add call, in call order,
\* Stacks with equal entries included, and last() returns the Stack of the
\* most recent call; create hands the engine, for each configured event type
\* in the order given, one line per Stack in the collection's order.
C10_OnePerCallInOrder ==
    [][/\ op' \in {"Stacks::push", "Stacks::add"} =>
            /\ Len(stacks') = Len(stacks) + 1
            /\ KeepsAll
            /\ Stacks_last(stacks') = Some(stacks'[Len(stacks) + 1])
            /\ op' = "Stacks::push" => stacks'[Len(stacks) + 1] = args'.value
       /\ op' \notin {"Stacks::push", "Stacks::add"} => Len(stacks') = Len(stacks)
       /\ op' = "Stacks::last" =>
            /\ stacks' = stacks
            /\ ret'.val = IF Len(stacks) = 0 THEN None
                          ELSE Some(stacks[Len(stacks)])
       /\ op' = "Flamegraph::create" =>
            /\ stacks' = stacks
            /\ Len(engine') <= Len(args'.types)
            /\ (ret'.tag = "Ok" /\ stacks # <<>>) => Len(engine') = Len(args'.types)
            /\ \A k \in 1..Len(engine') :
                 /\ engine'[k].options.count_name = args'.types[k]
                 /\ Len(engine'[k].lines) = Len(stacks)
                 /\ \A i \in 1..Len(stacks) :
                      Ok(engine'[k].lines[i])
                          = Stack_to_string(stacks[i], args'.types[k])
      ]_vars

\* the Stacks 'a' (Ir=10) and 'a;b' (Ir=5) rendered for Ir: the engine got
\* the lines 'a 10' and 'a;b 5', in that order
C10_Witness ==
    /\ op = "Flamegraph::create"
    /\ args.types = <<"Ir">>
    /\ ret.tag = "Ok"
    /\ Len(stacks) = 2
    /\ stacks[1].costs = Ir10
    /\ Len(engine) = 1
    /\ engine[1].lines = <<"a 10", "a;b 5">>

----------------------------------------------------------------------------
(* Claims about the destination, checked under SpecFlamegraph.  stacks is  *)
(* the collection of the Flamegraph of the last create call.               *)

\* some Stack of the collection has no cost for a configured event type
LacksMetric ==
    \E i \in 1..Len(stacks), k \in 1..Len(args.types) :
        cost_by_type(stacks[i].costs, args.types[k]) = None

\* the call failed in File::create or in the rendering engine
IoFailure == ret.tag = "Err" /\ ret.val \in {CreateFailed("io"), CreateFailed("render")}

\* the destination holds a completed SVG document
HoldsCompleteSvg == svg # None /\ \E d \in 1..Len(svg[1]) : svg[1][d].complete

\* C3: when create is called with a non-empty collection in which some Stack
\* has no cost for one of the configured event types (and neither the file
\* nor the engine fails), it returns the missing-metric error and leaves no
\* completed SVG in the destination.
C3_MissingMetricAborts ==
    (/\ op = "Flamegraph::create"
     /\ stacks # <<>>
     /\ LacksMetric
     /\ ~IoFailure)
    => /\ ret \in {Err(MetricNotFound(e)) : e \in EventTypes}
       /\ ~HoldsCompleteSvg

\* C4: create over an empty collection returns success, leaves both files
\* as they were and does not invoke the rendering engine.
C4_EmptyLeavesFilesAlone ==
    [][(op' = "Flamegraph::create" /\ stacks' = <<>>) =>
            /\ ret' = Ok("()")
            /\ svg' = svg
            /\ old' = old
            /\ engine' = <<>>
      ]_vars

\* create over an empty collection with two event types configured returned
\* success, and the earlier rendering is still in the destination
C4_Witness ==
    /\ op = "Flamegraph::create"
    /\ stacks = <<>>
    /\ args.types = <<"Ir", "Dr">>
    /\ ret = Ok("()")
    /\ svg = Some(<<PrevDoc("Ir")>>)
    /\ engine = <<>>

\* C5: after a successful create with more than one event type the
\* destination holds the output of exactly one render.
C5_OneRenderPerDestination ==
    (/\ op = "Flamegraph::create"
     /\ ret.tag = "Ok"
     /\ stacks # <<>>
     /\ Len(args.types) > 1)
    => svg # None /\ Len(svg[1]) = 1

\* C6: init copies nothing and leaves '.svg.old' alone when no '.svg' file
\* exists; when one exists and init succeeds, '.svg.old' holds what '.svg'
\* held and '.svg' is unchanged; when the copy fails, init returns an error
\* and '.svg' is unchanged.
C6_InitBacksUp ==
    [][op' = "FlamegraphOutput::init" =>
            /\ svg' = svg
            /\ svg = None =>
                 /\ ~args'.copied
                 /\ old' = old
                 /\ ret'.tag = "Ok"
            /\ (svg # None /\ ret'.tag = "Ok") => args'.copied /\ old' = svg
            /\ ret'.tag = "Err" =>
                 /\ svg # None
                 /\ args'.copied
                 /\ fgout' = fgout
      ]_vars

\* init succeeded on an existing rendering that differed from the backup held
\* before: '.svg.old' now equals '.svg'
C6_Witness ==
    /\ op = "FlamegraphOutput::init"
    /\ ret.tag = "Ok"
    /\ args.copied
    /\ svg # None
    /\ svg[1] # <<>>
    /\ svg # Some(<<PrevDoc("Ir")>>)
    /\ old = svg

====
